---- MODULE Spec2Model ----
(***************************************************************************)
(* repeatlint: the lint() request of src-tauri/src/lint.rs (tokenizer      *)
(* cache behind a mutex, inverted index, proximity scoring, rendering) and *)
(* the command line pipeline of src/main.rs.                               *)
(*                                                                         *)
(* Text is a sequence of one-character strings.  The morphological         *)
(* tokenizer (vibrato) is a black box: its token stream is a               *)
(* nondeterministic choice among the streams it can produce, contiguous    *)
(* non-empty tokens starting at character 0.                               *)
(***************************************************************************)
EXTENDS Integers, Sequences, FiniteSets, TLC

\* ------------------------------------------------------------------ bounds

\* Width of usize in the model (64 in the build).
UsizeBits == 6
\* Width of the value of calculate_hash in the model (64 in the build).
HashBits == 2
\* Longest token stream of the pipeline specification.
MaxTokens == 4
\* Number of threads that call lint().
NThreads == 2
\* lint() requests are accepted until this many tokenizers have been built.
MaxConstructions == 2

RECURSIVE Pow2(_)
Pow2(n) == IF n = 0 THEN 1 ELSE 2 * Pow2(n - 1)

USIZE_MAX == Pow2(UsizeBits) - 1

Threads == 1..NThreads

\* Option<T>
None == <<>>
Some(x) == <<x>>

\* ------------------------------------------------------------ the inputs

\* Tokens the tokenizer can yield: word_idx is the lexical identity, feature
\* the dictionary's feature text.  Words 1 and 3 share a surface; word 4 is an
\* unknown-word entry, shared by different surfaces.
TokenKinds ==
    { [word_idx |-> 1, surface |-> <<"a">>, feature |-> <<"N", ",", "c">>],
      [word_idx |-> 2, surface |-> <<"<", "b">>, feature |-> <<"P">>],
      [word_idx |-> 3, surface |-> <<"a">>, feature |-> <<"V", ",", "&">>],
      [word_idx |-> 4, surface |-> <<"x">>, feature |-> <<"U", ",", ">">>],
      [word_idx |-> 4, surface |-> <<"y", "y">>, feature |-> <<"U", ",", ">">>] }

TokenStreams(n) == UNION { [1..k -> TokenKinds] : k \in 0..n }

Thresholds == {0, 1, 2, USIZE_MAX}

\* Values of config.toml (struct Config of lint.rs).
Configs ==
    [ distance_threshold : Thresholds,
      proper_nouns : {<<>>, << <<"x">> >>},
      ignore_pos : {<<>>, << <<"N">>, <<"U">> >>},
      ignore_words : {<<>>, << <<"a">> >>} ]

\* Values of config.toml for the command line program (struct Config of main.rs).
MainConfigs ==
    [ distance_threshold : Thresholds,
      proper_nouns : {<<>>},
      ignores : {<<>>, << <<"N">>, <<"U">> >>} ]

\* The contents config.toml takes while the application runs.
FileConfigs ==
    { c \in Configs : /\ c.distance_threshold \in {1, 2}
                      /\ c.ignore_words = <<>>
                      /\ (c.distance_threshold = 1 => c.ignore_pos = <<>>)
                      /\ (c.distance_threshold = 2 => c.proper_nouns = <<>>) }

\* The token streams of the documents the application is asked to lint.
RequestStreams ==
    { s \in TokenStreams(2) : Len(s) # 1 /\ \A i \in DOMAIN s : s[i].word_idx = 1 }

VARIABLES
    \* TOKENIZER_CACHE: the OnceCell's content and the Mutex's holder (0: free)
    slot, mutex,
    \* per thread: position in lint() and its locals
    pc, config, taken, dict, new_tokenizer, tokenizer,
    \* per thread: the slot as it was when the thread got the lock, and the
    \* tokenizers the request has built so far
    seen, built,
    \* tokenizers built so far; whether a construction has failed
    constructions, failed,
    \* the last value lint() returned: <<thread, "ok" | "err">>
    returned,
    \* the pipeline of the last run: program, position, worker.token_iter(),
    \* the Config used, index, annotations and the text written
    prog, phase, tokens, run_config, index, annotations, html

cache_vars == <<slot, mutex, pc, config, taken, dict, new_tokenizer, tokenizer,
                seen, built, constructions, failed, returned>>
run_vars == <<prog, phase, tokens, run_config, index, annotations, html>>
vars == <<cache_vars, run_vars>>

\* ------------------------------------------------- the pipeline (pure part)

HTML_HEAD == "<div class=\"novel-body\">"
HTML_FOOT == "</div>"
MAIN_HTML_HEAD == "<!DOCTYPE html>...<div class=\"novel-body\">"
MAIN_HTML_FOOT == "</div></body></html>"
SEPARATOR == "<span class='separator'>|</span>"

Min(a, b) == IF a < b THEN a ELSE b
\* usize::saturating_sub in place of usize::abs_diff.
saturating_sub(a, b) == IF a < b THEN 0 ELSE a - b

abs_diff(a, b) == IF a < b THEN b - a ELSE a - b

\* Token::range_char(): tokens are contiguous from character 0.
RECURSIVE range_start(_, _)
range_start(toks, i) ==
    IF i = 1 THEN 0 ELSE range_start(toks, i - 1) + Len(toks[i - 1].surface)

range_char(toks, i) ==
    [start |-> range_start(toks, i),
     end |-> range_start(toks, i) + Len(toks[i].surface)]

\* feature.split_once(','): the text before the first comma, or all of it.
RECURSIVE pos_of(_)
pos_of(feature) ==
    IF feature = <<>> \/ Head(feature) = "," THEN <<>>
    ELSE <<Head(feature)>> \o pos_of(Tail(feature))

contains(list, s) == \E k \in 1..Len(list) : list[k] = s

\* A filter that compares the whole feature text, not its leading component.
ignored_by_feature(tok, cfg) ==
    \/ contains(cfg.ignore_pos, tok.feature)
    \/ contains(cfg.ignore_words, tok.surface)

\* The two `continue`s of the scan of lint().
ignored(tok, cfg) ==
    \/ contains(cfg.ignore_pos, pos_of(tok.feature))
    \/ contains(cfg.ignore_words, tok.surface)

\* The `continue` of the scan of main().
main_ignored(tok, cfg) == contains(cfg.ignores, pos_of(tok.feature))

EmptyMap == [k \in {} |-> 0]

\* index.entry(word_idx).or_default().push(range)
push(idx, w, r) ==
    IF w \in DOMAIN idx
    THEN [idx EXCEPT ![w] = Append(@, r)]
    ELSE [k \in DOMAIN idx \cup {w} |-> IF k = w THEN <<r>> ELSE idx[k]]

\* The scan that fills the inverted index, from token i on.
RECURSIVE build_index(_, _, _, _)
build_index(toks, cfg, i, idx) ==
    IF i > Len(toks) THEN idx
    ELSE IF ignored(toks[i], cfg) THEN build_index(toks, cfg, i + 1, idx)
    ELSE build_index(toks, cfg, i + 1,
                     push(idx, toks[i].word_idx, range_char(toks, i)))

RECURSIVE main_build_index(_, _, _, _)
main_build_index(toks, cfg, i, idx) ==
    IF i > Len(toks) THEN idx
    ELSE IF main_ignored(toks[i], cfg) THEN main_build_index(toks, cfg, i + 1, idx)
    ELSE main_build_index(toks, cfg, i + 1,
                          push(idx, toks[i].word_idx, range_char(toks, i)))

\* The inner loop over j, from j on, with min_dist so far.
RECURSIVE min_dist_from(_, _, _, _)
min_dist_from(ranges, i, j, min_dist) ==
    IF j > Len(ranges) THEN min_dist
    ELSE IF i = j THEN min_dist_from(ranges, i, j + 1, min_dist)
    ELSE min_dist_from(ranges, i, j + 1,
            Min(min_dist, Min(abs_diff(ranges[i].start, ranges[j].end),
                              abs_diff(ranges[i].end, ranges[j].start))))

\* A scan that starts from a sentinel one below usize::MAX.
min_dist_of_low_sentinel(ranges, i) == min_dist_from(ranges, i, 1, USIZE_MAX - 1)

\* let mut min_dist = usize::MAX; for j in 0..ranges.len() { ... }
min_dist_of(ranges, i) == min_dist_from(ranges, i, 1, USIZE_MAX)

\* annotations.insert(start, Annotation { distance })
insert(ann, k, d) ==
    [x \in DOMAIN ann \cup {k} |-> IF x = k THEN [distance |-> d] ELSE ann[x]]

\* The loop over i of one group.
RECURSIVE annotate_group(_, _, _)
annotate_group(ranges, i, ann) ==
    IF i > Len(ranges) THEN ann
    ELSE annotate_group(ranges, i + 1,
                        insert(ann, ranges[i].start, min_dist_of(ranges, i)))

\* for (_, ranges) in index.iter(): `order` is the HashMap's iteration order.
RECURSIVE annotate(_, _, _)
annotate(idx, order, ann) ==
    IF order = <<>> THEN ann
    ELSE annotate(idx, Tail(order), annotate_group(idx[Head(order)], 1, ann))

\* The orders in which a HashMap with these keys can be iterated.
iter_orders(keys) ==
    { o \in [1..Cardinality(keys) -> keys] : \A k \in keys : \E n \in DOMAIN o : o[n] = k }

\* html_escape::encode_text
encode_char(c) ==
    CASE c = "&" -> <<"&", "a", "m", "p", ";">>
      [] c = "<" -> <<"&", "l", "t", ";">>
      [] c = ">" -> <<"&", "g", "t", ";">>
      [] OTHER -> <<c>>

RECURSIVE encode_text(_)
encode_text(s) ==
    IF s = <<>> THEN <<>> ELSE encode_char(Head(s)) \o encode_text(Tail(s))

\* An inclusive threshold.
is_alert_inclusive(ann, start, threshold) ==
    start \in DOMAIN ann /\ ann[start].distance <= threshold

\* annotation.is_some_and(|a| a.distance < config.distance_threshold)
is_alert(ann, start, threshold) ==
    start \in DOMAIN ann /\ ann[start].distance < threshold

class_of(ann, start, threshold) ==
    IF is_alert(ann, start, threshold) THEN "alert" ELSE ""

\* The four write!s of one token: the span and the separator.
RECURSIVE write_tokens(_, _, _, _)
write_tokens(toks, ann, threshold, i) ==
    IF i > Len(toks) THEN <<>>
    ELSE << [title |-> encode_text(toks[i].feature),
             class |-> class_of(ann, range_start(toks, i), threshold),
             text |-> encode_text(toks[i].surface)],
            SEPARATOR >> \o write_tokens(toks, ann, threshold, i + 1)

\* A renderer that writes only the tokens that were scored.
RECURSIVE write_scored_tokens(_, _, _, _)
write_scored_tokens(toks, ann, threshold, i) ==
    IF i > Len(toks) THEN <<>>
    ELSE (IF range_start(toks, i) \in DOMAIN ann
          THEN << [title |-> encode_text(toks[i].feature),
                   class |-> class_of(ann, range_start(toks, i), threshold),
                   text |-> encode_text(toks[i].surface)],
                  SEPARATOR >>
          ELSE <<>>) \o write_scored_tokens(toks, ann, threshold, i + 1)

render_scored_only(toks, ann, threshold) ==
    <<HTML_HEAD>> \o write_scored_tokens(toks, ann, threshold, 1) \o <<HTML_FOOT>>

render(toks, ann, threshold) ==
    <<HTML_HEAD>> \o write_tokens(toks, ann, threshold, 1) \o <<HTML_FOOT>>

main_render(toks, ann, threshold) ==
    <<MAIN_HTML_HEAD>> \o write_tokens(toks, ann, threshold, 1) \o <<MAIN_HTML_FOOT>>

\* ------------------------------------------------ the pipeline specification

CacheInit ==
    /\ slot = None
    /\ mutex = 0
    /\ pc = [t \in Threads |-> "idle"]
    /\ config = [t \in Threads |-> None]
    /\ taken = [t \in Threads |-> None]
    /\ dict = [t \in Threads |-> None]
    /\ new_tokenizer = [t \in Threads |-> None]
    /\ tokenizer = [t \in Threads |-> None]
    /\ seen = [t \in Threads |-> None]
    /\ built = [t \in Threads |-> 0]
    /\ constructions = 0
    /\ failed = FALSE
    /\ returned = None

\* The state after worker.tokenize() of either program.
InitPipeline ==
    /\ CacheInit
    /\ prog \in {"lint", "main"}
    /\ phase = "tokenized"
    /\ tokens \in TokenStreams(MaxTokens)
    /\ run_config \in (IF prog = "lint" THEN Configs ELSE MainConfigs)
    /\ index = EmptyMap
    /\ annotations = EmptyMap
    /\ html = <<>>

\* lint() from the scan to the returned text.
lint_pipeline ==
    /\ prog = "lint"
    /\ phase = "tokenized"
    /\ LET idx == build_index(tokens, run_config, 1, EmptyMap)
       IN \E order \in iter_orders(DOMAIN idx) :
            LET ann == annotate(idx, order, EmptyMap)
            IN /\ index' = idx
               /\ annotations' = ann
               /\ html' = render(tokens, ann, run_config.distance_threshold)
    /\ phase' = "done"
    /\ UNCHANGED <<prog, tokens, run_config, cache_vars>>

\* main() from the scan to the written file.
main_pipeline ==
    /\ prog = "main"
    /\ phase = "tokenized"
    /\ LET idx == main_build_index(tokens, run_config, 1, EmptyMap)
       IN \E order \in iter_orders(DOMAIN idx) :
            LET ann == annotate(idx, order, EmptyMap)
            IN /\ index' = idx
               /\ annotations' = ann
               /\ html' = main_render(tokens, ann, run_config.distance_threshold)
    /\ phase' = "done"
    /\ UNCHANGED <<prog, tokens, run_config, cache_vars>>

NextPipeline == lint_pipeline \/ main_pipeline

SpecPipeline == InitPipeline /\ [][NextPipeline]_vars

\* --------------------------------------------------- the cache specification

HashMod == Pow2(HashBits)

char_code(c) ==
    CASE c = "a" -> 97 [] c = "x" -> 120 [] c = "N" -> 78 [] c = "U" -> 85 [] OTHER -> 63

\* Hasher::write of one value into the running state (SipHash in the build).
mix(h, v) == (h * 31 + v + 7) % HashMod

\* impl Hash for str: the bytes, then 0xff.
RECURSIVE hash_str(_, _)
hash_str(h, s) ==
    IF s = <<>> THEN mix(h, 255) ELSE hash_str(mix(h, char_code(Head(s))), Tail(s))

RECURSIVE hash_strs(_, _)
hash_strs(h, l) ==
    IF l = <<>> THEN h ELSE hash_strs(hash_str(h, Head(l)), Tail(l))

\* impl Hash for Vec<String>: the length, then the elements.
hash_vec(h, l) == hash_strs(mix(h, Len(l)), l)

\* calculate_hash(&config) with #[derive(Hash)]: the fields in order.
calculate_hash(c) ==
    hash_vec(hash_vec(hash_vec(mix(0, c.distance_threshold), c.proper_nouns),
                      c.ignore_pos),
             c.ignore_words)

\* A lock that does not exclude: lock() returns whoever holds the guard.
can_lock_unguarded(t) == TRUE

\* TOKENIZER_CACHE.lock() returns once no other thread holds the guard.
can_lock(t) == mutex = 0

\* An arm without its guard: any stored entry is reused.
cache_hit_any_entry(cell, current_hash) == cell # None

\* An arm that never matches: every request rebuilds.
cache_hit_never(cell, current_hash) == FALSE

\* Some((hash, tokenizer)) if hash == current_hash
cache_hit(cell, current_hash) == cell # None /\ cell[1].hash = current_hash

NoRun ==
    [distance_threshold |-> 0, proper_nouns |-> <<>>, ignore_pos |-> <<>>,
     ignore_words |-> <<>>]

Init ==
    /\ CacheInit
    /\ prog = "lint"
    /\ phase = "idle"
    /\ tokens = <<>>
    /\ run_config = NoRun
    /\ index = EmptyMap
    /\ annotations = EmptyMap
    /\ html = <<>>

\* The locals of a request that has returned.
drop_locals(t) ==
    /\ config' = [config EXCEPT ![t] = None]
    /\ taken' = [taken EXCEPT ![t] = None]
    /\ dict' = [dict EXCEPT ![t] = None]
    /\ new_tokenizer' = [new_tokenizer EXCEPT ![t] = None]
    /\ tokenizer' = [tokenizer EXCEPT ![t] = None]
    /\ seen' = [seen EXCEPT ![t] = None]
    /\ built' = [built EXCEPT ![t] = 0]

\* lint() is called and reads config.toml.
read_config(t) ==
    /\ pc[t] = "idle"
    /\ constructions < MaxConstructions
    /\ \E c \in FileConfigs : config' = [config EXCEPT ![t] = Some(c)]
    /\ pc' = [pc EXCEPT ![t] = "lock"]
    /\ UNCHANGED <<slot, mutex, taken, dict, new_tokenizer, tokenizer, seen, built,
                   constructions, failed, returned, run_vars>>

\* config.toml cannot be opened or parsed: lint() returns before the cache.
read_config_error(t) ==
    /\ pc[t] = "idle"
    /\ returned' = Some([thread |-> t, result |-> "err"])
    /\ UNCHANGED <<slot, mutex, pc, config, taken, dict, new_tokenizer, tokenizer,
                   seen, built, constructions, failed, run_vars>>

\* let mut tokenizer_cell = TOKENIZER_CACHE.lock().unwrap();
lock(t) ==
    /\ pc[t] = "lock"
    /\ can_lock(t)
    /\ mutex' = t
    /\ seen' = [seen EXCEPT ![t] = slot]
    /\ pc' = [pc EXCEPT ![t] = "take"]
    /\ UNCHANGED <<slot, config, taken, dict, new_tokenizer, tokenizer, built,
                   constructions, failed, returned, run_vars>>

\* let current_hash = calculate_hash(&config); match tokenizer_cell.take() { .. }
take(t) ==
    /\ pc[t] = "take"
    /\ taken' = [taken EXCEPT ![t] = slot]
    /\ slot' = None
    /\ pc' = [pc EXCEPT ![t] =
                IF cache_hit(slot, calculate_hash(config[t][1]))
                THEN "reuse" ELSE "create"]
    /\ UNCHANGED <<mutex, config, dict, new_tokenizer, tokenizer, seen, built,
                   constructions, failed, returned, run_vars>>

\* The first arm: the entry taken goes back into the cell.
reuse(t) ==
    /\ pc[t] = "reuse"
    /\ slot = None
    /\ slot' = taken[t]
    /\ taken' = [taken EXCEPT ![t] = None]
    /\ pc' = [pc EXCEPT ![t] = "get"]
    /\ UNCHANGED <<mutex, config, dict, new_tokenizer, tokenizer, seen, built,
                   constructions, failed, returned, run_vars>>

\* create_tokenizer: the dictionary file is opened and read.
read_dictionary(t) ==
    /\ pc[t] = "create"
    /\ dict' = [dict EXCEPT ![t] = Some("system.dic")]
    /\ pc' = [pc EXCEPT ![t] = "lexicon"]
    /\ UNCHANGED <<slot, mutex, config, taken, new_tokenizer, tokenizer, seen, built,
                   constructions, failed, returned, run_vars>>

\* create_tokenizer: the user lexicon is set and the Tokenizer made.
reset_user_lexicon(t) ==
    /\ pc[t] = "lexicon"
    /\ new_tokenizer' = [new_tokenizer EXCEPT ![t] =
                           Some([id |-> constructions + 1, config |-> config[t][1]])]
    /\ dict' = [dict EXCEPT ![t] = None]
    /\ constructions' = constructions + 1
    /\ built' = [built EXCEPT ![t] = @ + 1]
    /\ pc' = [pc EXCEPT ![t] = "publish"]
    /\ UNCHANGED <<slot, mutex, config, taken, tokenizer, seen, failed, returned,
                   run_vars>>

\* A failure that panics instead of returning: the mutex stays with the
\* thread (poisoned), and no later lock() gets it.
create_tokenizer_panic(t) ==
    /\ pc[t] \in {"create", "lexicon"}
    /\ failed' = TRUE
    /\ returned' = Some([thread |-> t, result |-> "err"])
    /\ pc' = [pc EXCEPT ![t] = "idle"]
    /\ drop_locals(t)
    /\ UNCHANGED <<slot, mutex, constructions, run_vars>>

\* create_tokenizer(..)? fails: lint() returns the error, the guard is dropped.
create_tokenizer_error(t) ==
    /\ pc[t] \in {"create", "lexicon"}
    /\ mutex' = 0
    /\ failed' = TRUE
    /\ returned' = Some([thread |-> t, result |-> "err"])
    /\ pc' = [pc EXCEPT ![t] = "idle"]
    /\ drop_locals(t)
    /\ UNCHANGED <<slot, constructions, run_vars>>

\* The second arm after create_tokenizer: set((new_hash, new_tokenizer)).
publish(t) ==
    /\ pc[t] = "publish"
    /\ slot = None
    /\ slot' = Some([hash |-> calculate_hash(config[t][1]),
                     tokenizer |-> new_tokenizer[t][1]])
    /\ new_tokenizer' = [new_tokenizer EXCEPT ![t] = None]
    /\ taken' = [taken EXCEPT ![t] = None]
    /\ pc' = [pc EXCEPT ![t] = "get"]
    /\ UNCHANGED <<mutex, config, dict, tokenizer, seen, built, constructions,
                   failed, returned, run_vars>>

\* let tokenizer = &tokenizer_cell.get().unwrap().1;
get(t) ==
    /\ pc[t] = "get"
    /\ slot # None
    /\ tokenizer' = [tokenizer EXCEPT ![t] = Some(slot[1].tokenizer)]
    /\ pc' = [pc EXCEPT ![t] = "tokenize"]
    /\ UNCHANGED <<slot, mutex, config, taken, dict, new_tokenizer, seen, built,
                   constructions, failed, returned, run_vars>>

\* The rest of lint(): tokenize, scan, score, render, return; the guard is dropped.
lint_body(t) ==
    /\ pc[t] = "tokenize"
    /\ \E toks \in RequestStreams :
         LET idx == build_index(toks, config[t][1], 1, EmptyMap)
         IN \E order \in iter_orders(DOMAIN idx) :
              LET ann == annotate(idx, order, EmptyMap)
              IN /\ tokens' = toks
                 /\ index' = idx
                 /\ annotations' = ann
                 /\ html' = render(toks, ann, config[t][1].distance_threshold)
    /\ run_config' = config[t][1]
    /\ phase' = "done"
    /\ returned' = Some([thread |-> t, result |-> "ok"])
    /\ mutex' = 0
    /\ pc' = [pc EXCEPT ![t] = "idle"]
    /\ drop_locals(t)
    /\ UNCHANGED <<slot, prog, constructions, failed>>

Next ==
    \E t \in Threads :
        \/ read_config(t)
        \/ read_config_error(t)
        \/ lock(t)
        \/ take(t)
        \/ reuse(t)
        \/ read_dictionary(t)
        \/ reset_user_lexicon(t)
        \/ create_tokenizer_error(t)
        \/ publish(t)
        \/ get(t)
        \/ lint_body(t)

Spec == Init /\ [][Next]_vars

\* ------------------------------------------------------ claims on the cache

\* The positions of lint() between lock() and the drop of the guard.
Locked == {"take", "reuse", "create", "lexicon", "publish", "get", "tokenize"}

own_hash(t) == calculate_hash(config[t][1])

\* The request of t found an entry with its own hash when it got the lock.
found_same_hash(t) == seen[t] # None /\ seen[t][1].hash = own_hash(t)

Ok(t) == Some([thread |-> t, result |-> "ok"])
Err(t) == Some([thread |-> t, result |-> "err"])

\* C1: when create_tokenizer fails, the slot after the call is the slot the
\* request found (Populated(h, r) stays Populated(h, r), Empty stays Empty)
\* and the error is returned.
C1_FailureKeepsSlot ==
    [][\A t \in Threads :
         (pc[t] \in {"create", "lexicon"} /\ pc'[t] = "idle")
         => (slot' = seen[t] /\ returned' = Err(t))]_vars

\* C2: once the cache section of a request is over, a request that found an
\* entry with its own hash has built no tokenizer and the slot is the entry it
\* found; any other request has built exactly one and the slot holds its hash.
C2_HitReusesMissBuildsOnce ==
    \A t \in Threads :
        pc[t] \in {"get", "tokenize"} =>
            /\ found_same_hash(t) => (built[t] = 0 /\ slot = seen[t])
            /\ ~found_same_hash(t) =>
                 (built[t] = 1 /\ slot # None /\ slot[1].hash = own_hash(t))

\* A request reuses the entry an earlier request left, after the entry was
\* rebuilt once for another hash; no construction has failed.
C2_Witness ==
    \E t \in Threads :
        /\ pc[t] = "tokenize" /\ found_same_hash(t) /\ ~failed
        /\ built[t] = 0 /\ constructions = 2

\* C3: at most one request is between lock() and the drop of the guard, it is
\* the holder of the mutex, and the slot is Empty or one complete
\* (hash, tokenizer) pair whose hash is that of the tokenizer's config; the
\* slot a request finds is still there when it takes it, and stays empty from
\* the take to the publication.
C3_Serialized ==
    /\ \A t, u \in Threads : (pc[t] \in Locked /\ pc[u] \in Locked) => t = u
    /\ \A t \in Threads : pc[t] \in Locked => mutex = t
    /\ Len(slot) <= 1
    /\ slot # None =>
         /\ DOMAIN slot[1] = {"hash", "tokenizer"}
         /\ DOMAIN slot[1].tokenizer = {"id", "config"}
         /\ slot[1].tokenizer.config \in FileConfigs
         /\ slot[1].hash = calculate_hash(slot[1].tokenizer.config)
    /\ \A t \in Threads : pc[t] = "take" => slot = seen[t]
    /\ \A t \in Threads : pc[t] \in {"reuse", "create", "lexicon", "publish"} => slot = None

\* A request is building a tokenizer, having taken an older entry out, while
\* another request waits for the lock.
C3_Witness ==
    \E t, u \in Threads :
        /\ pc[t] = "lexicon" /\ seen[t] # None /\ slot = None
        /\ pc[u] = "lock"

\* C9: a failed construction leaves the mutex free, and a request that gets
\* through the cache section after a failure returns text, with the slot
\* Populated with the hash of its own config.
C9_RecoversAfterFailure ==
    [][\A t \in Threads :
         failed' =>
            /\ pc'[t] \in {"idle", "lock"} => mutex' # t
            /\ (pc[t] = "tokenize" /\ pc'[t] = "idle") =>
                 /\ returned' = Ok(t)
                 /\ slot' # None
                 /\ slot'[1].hash = own_hash(t)]_vars

\* A request has returned text after a construction failed.
C9_Witness ==
    /\ failed
    /\ \E t \in Threads : returned = Ok(t)
    /\ slot # None
    /\ phase = "done"

\* C10: while a request tokenizes and renders, the tokenizer it borrowed is
\* the one in the slot and was built from a config with the hash of the
\* request's own config.
C10_OwnTokenizer ==
    \A t \in Threads :
        pc[t] = "tokenize" =>
            /\ tokenizer[t] # None
            /\ slot # None
            /\ slot[1].tokenizer = tokenizer[t][1]
            /\ calculate_hash(tokenizer[t][1].config) = own_hash(t)

\* A request tokenizes with a tokenizer it built in place of an entry with
\* another hash, while a request with yet another hash waits for the lock.
C10_Witness ==
    \E t, u \in Threads :
        /\ pc[t] = "tokenize" /\ seen[t] # None /\ seen[t][1].hash # own_hash(t)
        /\ pc[u] = "lock" /\ own_hash(u) # own_hash(t)

\* --------------------------------------------------- claims on the pipeline

Positions == 1..Len(tokens)

\* The feature text before its first comma, or all of it.
LeadingComponent(feature) ==
    IF \E k \in 1..Len(feature) : feature[k] = ","
    THEN SubSeq(feature, 1,
                (CHOOSE k \in 1..Len(feature) :
                    feature[k] = "," /\ \A m \in 1..(k - 1) : feature[m] # ",") - 1)
    ELSE feature

Entries(list) == { list[k] : k \in 1..Len(list) }

\* Token i is excluded by the configuration of the run.
Excluded(i) ==
    IF prog = "lint"
    THEN \/ LeadingComponent(tokens[i].feature) \in Entries(run_config.ignore_pos)
         \/ tokens[i].surface \in Entries(run_config.ignore_words)
    ELSE LeadingComponent(tokens[i].feature) \in Entries(run_config.ignores)

start_of(i) == range_char(tokens, i).start
end_of(i) == range_char(tokens, i).end

\* The other occurrences of the lexical identity of token i.
Siblings(i) ==
    { j \in Positions \ {i} :
        ~Excluded(j) /\ tokens[j].word_idx = tokens[i].word_idx }

SetMin(S) == CHOOSE x \in S : \A y \in S : x <= y

\* The characters between the ranges of i and j.
Gap(i, j) == IF i < j THEN start_of(j) - end_of(i) ELSE start_of(i) - end_of(j)

Abs(x) == IF x < 0 THEN 0 - x ELSE x

Formula(i, j) ==
    LET a == Abs(start_of(i) - end_of(j))
        b == Abs(end_of(i) - start_of(j))
    IN IF a < b THEN a ELSE b

\* The element written for token i.
Element(i) == html[2 * i]

Scored(i) == start_of(i) \in DOMAIN annotations

\* C4: a scored occurrence is written with class 'alert' exactly when its
\* computed distance is strictly below distance_threshold.
C4_AlertIffBelowThreshold ==
    phase = "done" =>
        \A i \in Positions :
            Scored(i) =>
                (Element(i).class = "alert"
                 <=> annotations[start_of(i)].distance < run_config.distance_threshold)

\* One occurrence at exactly the threshold, not alerted, and one at the
\* threshold minus one, alerted.
C4_Witness ==
    /\ phase = "done"
    /\ \E i, j \in Positions :
         /\ Scored(i) /\ Scored(j)
         /\ annotations[start_of(i)].distance = run_config.distance_threshold
         /\ Element(i).class = ""
         /\ annotations[start_of(j)].distance = run_config.distance_threshold - 1
         /\ Element(j).class = "alert"

\* C5: the only occurrence of a lexical identity is never written with class
\* 'alert', whatever the threshold.
C5_SingletonNeverAlert ==
    phase = "done" =>
        \A i \in Positions :
            (~Excluded(i) /\ Siblings(i) = {}) => Element(i).class # "alert"

\* A singleton group under the largest threshold.
C5_Witness ==
    /\ phase = "done"
    /\ run_config.distance_threshold = USIZE_MAX
    /\ \E i \in Positions : ~Excluded(i) /\ Siblings(i) = {} /\ Scored(i)

\* C6: the range of an excluded token is in no group of the index, and the
\* token is still written, with an empty class.
C6_ExcludedNotIndexedStillWritten ==
    phase = "done" =>
        \A i \in Positions :
            Excluded(i) =>
                /\ \A w \in DOMAIN index :
                     \A k \in 1..Len(index[w]) : index[w][k] # range_char(tokens, i)
                /\ Len(html) >= 2 * i + 1
                /\ Element(i).text = encode_text(tokens[i].surface)
                /\ Element(i).class = ""

\* An excluded token between two close occurrences that are alerted; it is
\* excluded by the leading component of a feature that has more components.
C6_Witness ==
    /\ phase = "done"
    /\ \E i, j \in Positions :
         /\ Excluded(i)
         /\ LeadingComponent(tokens[i].feature) # tokens[i].feature
         /\ Element(i).class = ""
         /\ ~Excluded(j) /\ Element(j).class = "alert"

\* C7: in a group of two or more, the distance stored under the start of
\* occurrence i is the minimum over its siblings j of
\* min(|s_i - e_j|, |e_i - s_j|), which is the gap to the nearest sibling.
C7_DistanceIsNearestGap ==
    phase = "done" =>
        \A i \in Positions :
            (~Excluded(i) /\ Siblings(i) # {}) =>
                /\ Scored(i)
                /\ annotations[start_of(i)].distance
                     = SetMin({ Formula(i, j) : j \in Siblings(i) })
                /\ annotations[start_of(i)].distance
                     = SetMin({ Gap(i, j) : j \in Siblings(i) })

\* An occurrence with a sibling on either side, at different gaps.
C7_Witness ==
    /\ phase = "done"
    /\ \E i \in Positions : \E j, k \in Siblings(i) :
         j < i /\ i < k /\ Gap(i, j) # Gap(i, k) /\ Gap(i, k) > 0

\* C8: the text written is the opening wrapper, one element and one
\* separator per token of the unfiltered stream, in its order, and the
\* closing wrapper.
C8_EveryTokenOnceInOrder ==
    phase = "done" =>
        /\ Len(html) = 2 * Len(tokens) + 2
        /\ html[1] = (IF prog = "lint" THEN HTML_HEAD ELSE MAIN_HTML_HEAD)
        /\ html[Len(html)] = (IF prog = "lint" THEN HTML_FOOT ELSE MAIN_HTML_FOOT)
        /\ \A i \in Positions :
             /\ Element(i).text = encode_text(tokens[i].surface)
             /\ Element(i).title = encode_text(tokens[i].feature)
             /\ html[2 * i + 1] = SEPARATOR

\* A stream of the longest length with an excluded token and two different
\* surfaces.
C8_Witness ==
    /\ phase = "done"
    /\ Len(tokens) = MaxTokens
    /\ \E i, j \in Positions :
         Excluded(i) /\ ~Excluded(j) /\ tokens[i].surface # tokens[j].surface

====
